---- MODULE Spec2Model ----
(***************************************************************************)
(* Model of grobid_client.py: the GrobidClient batch scheduler             *)
(* (process / process_batch), the per-file worker (process_pdf) with its   *)
(* 503 retry, the destination naming and the result write.                 *)
(*                                                                         *)
(* A path or file name is a sequence of characters (one-character strings),*)
(* built and taken apart as the code does it; the platform is POSIX        *)
(* (os.sep is "/").                                                        *)
(***************************************************************************)
EXTENDS Integers, Sequences, FiniteSets, TLC

VARIABLES
    args,              \* the parsed command line: service, --output, the option flags
    config,            \* self.config: batch_size, sleep_time, ... (json of _load_config)
    n,                 \* module global n of __main__, the pool size used by process_batch
    number_of_processes, \* self.number_of_processes
    force,             \* self.force
    options,           \* self.generate_ids, consolidate_header, consolidate_citations, tei_coordinates
    api_url,           \* self.api_url of the client object in the main process
    service,           \* self.service
    output_directory,  \* self.output_directory
    budget,            \* how many faults (answers other than 200, errors) the environment of the run injects at most
    alive,             \* history: the status code _is_alive got (0: not asked yet)
    input_ok,          \* whether input_directory exists and is a directory
    tree,              \* what os.walk(input_directory) yields: the files, in walk order
    disk,              \* the destination files: path -> content
    mainpc,            \* position of the main process
    pos,               \* number of walk entries already visited by process()
    pdf_files_paths,   \* the buffer of process()
    batches,           \* history: the argument of every process_batch call, in order
    queue,             \* the executor's pending work items (FIFO)
    pc,                \* per submitted file: position of its process_pdf task
    task_url,          \* per task: self.api_url of the task's own (pickled) client copy
    requests,          \* history: every POST made, [src, attempt, url, data]
    got503,            \* history: per file, number of 503 answers received
    status,            \* per file: status code of the last answer (0: none yet)
    started,           \* history: per file, the disk content of its destination when its task began
    checks,            \* history: per file, how often its skip test was made
    writes,            \* history: per file, the outcomes of its io.open/write, in order
    printed            \* history: the per-file failure messages printed

vars == << args, config, n, number_of_processes, force, options, api_url, service,
           output_directory, budget, alive, input_ok, tree, disk, mainpc, pos, pdf_files_paths,
           batches, queue, pc, task_url, requests, got503, status, started, checks, writes,
           printed >>

(***************************************************************************)
(* Bounds of the model.                                                    *)
(***************************************************************************)
MaxFiles == 3       \* at most this many files under the input directory
MaxBatch == 2       \* config["batch_size"] ranges over 1..MaxBatch
MaxWorkers == 2     \* --n ranges over 1..MaxWorkers
MaxFaults == 1      \* at most this many answers other than 200, transport errors and failed writes in a run
RecursionLimit == 3 \* nested process_pdf calls the interpreter allows (sys.getrecursionlimit(), scaled down)

(***************************************************************************)
(* Characters, names and paths.                                            *)
(***************************************************************************)
None == [given |-> FALSE, dir |-> << >>]
Some(d) == [given |-> TRUE, dir |-> d]

\* what os.walk yields for a file: directory_path and filename
Path(d, f) == [dir |-> d, name |-> f]

\* str.endswith
EndsWith(s, suffix) ==
    /\ Len(s) >= Len(suffix)
    /\ SubSeq(s, Len(s) - Len(suffix) + 1, Len(s)) = suffix

ExtLower == << ".", "p", "d", "f" >>
ExtUpper == << ".", "P", "D", "F" >>
TeiSuffix == << ".", "t", "e", "i", ".", "x", "m", "l" >>

\* the filter of process(): filename.endswith('.pdf') or filename.endswith('.PDF')
IsPdfName(filename) == EndsWith(filename, ExtLower) \/ EndsWith(filename, ExtUpper)

\* the last position of s that holds one of the characters (none of the
\* characters), and the first one from a position on; 0 if there is none
LastPos(s, chars) ==
    LET I == { i \in 1..Len(s) : s[i] \in chars }
    IN  IF I = {} THEN 0 ELSE CHOOSE i \in I : \A j \in I : j <= i

LastPosNot(s, chars) ==
    LET I == { i \in 1..Len(s) : s[i] \notin chars }
    IN  IF I = {} THEN 0 ELSE CHOOSE i \in I : \A j \in I : j <= i

FirstPosFrom(s, from, chars) ==
    LET I == { i \in from..Len(s) : s[i] \in chars }
    IN  IF I = {} THEN 0 ELSE CHOOSE i \in I : \A j \in I : i <= j

\* os.path.splitext(name)[0] (posixpath): cut at the last dot of the last
\* component, unless only dots precede it there
SplitextRoot(name) ==
    LET sepIndex == LastPos(name, { "/" })
        dotIndex == LastPos(name, { "." })
        lead == \E j \in (sepIndex + 1)..(dotIndex - 1) : name[j] # "."
    IN  IF dotIndex > sepIndex /\ lead THEN SubSeq(name, 1, dotIndex - 1) ELSE name

\* os.sep.join([directory_path, filename])
JoinPath(directory_path, filename) == directory_path \o << "/" >> \o filename

\* os.path.join(a, b) (posixpath)
OsPathJoin(a, b) ==
    IF Len(b) > 0 /\ b[1] = "/" THEN b
    ELSE IF Len(a) = 0 \/ a[Len(a)] = "/" THEN a \o b
    ELSE a \o << "/" >> \o b

\* the separators of ntpath: "\" and "/"
NtSeps == { "\\", "/" }

\* str.upper, for the letters of the UNC prefix
UpperChar(c) ==
    CASE c = "u" -> "U"
      [] c = "n" -> "N"
      [] c = "c" -> "C"
      [] OTHER -> c

UncPrefix == << "\\", "\\", "?", "\\", "U", "N", "C", "\\" >>

\* ntpath.splitdrive(p): << drive or UNC share, rest >>
SplitDrive(p) ==
    LET normp == [i \in 1..Len(p) |-> IF p[i] = "/" THEN "\\" ELSE p[i]]
        IsSep == { "\\" }
    IN  IF Len(p) >= 2 /\ normp[1] = "\\" /\ normp[2] = "\\"
        THEN LET start == IF Len(p) >= 8
                             /\ [i \in 1..8 |-> UpperChar(normp[i])] = UncPrefix
                          THEN 9 ELSE 3
                 index == FirstPosFrom(normp, start, IsSep)
                 index2 == IF index = 0 THEN 0 ELSE FirstPosFrom(normp, index + 1, IsSep)
             IN  IF index = 0 \/ index2 = 0
                 THEN << p, << >> >>
                 ELSE << SubSeq(p, 1, index2 - 1), SubSeq(p, index2, Len(p)) >>
        ELSE IF Len(p) >= 2 /\ normp[2] = ":"
        THEN << SubSeq(p, 1, 2), SubSeq(p, 3, Len(p)) >>
        ELSE << << >>, p >>

\* ntpath.split(p): << head, tail >>, the tail is what follows the last separator
NtSplit(p) ==
    LET d == SplitDrive(p)[1]
        r == SplitDrive(p)[2]
        i == LastPos(r, NtSeps)
        head == SubSeq(r, 1, i)
        stripped == SubSeq(head, 1, LastPosNot(head, NtSeps))
    IN  << d \o (IF stripped = << >> THEN head ELSE stripped), SubSeq(r, i + 1, Len(r)) >>

\* ntpath.basename / ntpath.dirname
Basename(p) == NtSplit(p)[2]
Dirname(p) == NtSplit(p)[1]

\* the wrong naming a mutant uses: the whole file name is kept
DestinationKeepExt(pdf_file_path, outdir) ==
    IF outdir.given
    THEN OsPathJoin(outdir.dir, Basename(pdf_file_path) \o TeiSuffix)
    ELSE OsPathJoin(Dirname(pdf_file_path), Basename(pdf_file_path) \o TeiSuffix)

\* process_pdf, lines 97-101: the destination file of an input file
Destination(pdf_file_path, outdir) ==
    IF outdir.given
    THEN OsPathJoin(outdir.dir, SplitextRoot(Basename(pdf_file_path)) \o TeiSuffix)
    ELSE OsPathJoin(Dirname(pdf_file_path), SplitextRoot(Basename(pdf_file_path)) \o TeiSuffix)

(***************************************************************************)
(* The inputs of a run.                                                    *)
(***************************************************************************)
InDir == << "i", "n" >>
SubDir == << "i", "n", "/", "s", "u", "b" >>
OutDir == << "o", "u", "t" >>

\* the directories there are
Dirs == { InDir, SubDir, OutDir }

\* the files that may lie under the input directory, in the order os.walk
\* lists them; the fifth is a file of the directory in whose name holds a "\"
Catalogue ==
    << Path(InDir, << "b", ".", "p", "d", "f" >>),
       Path(InDir, << "a", ".", "p", "d", "f" >>),
       Path(InDir, << "a", ".", "P", "d", "f" >>),
       Path(InDir, << "a", ".", "P", "D", "F" >>),
       Path(InDir, << "x", "\\", "a", ".", "p", "d", "f" >>),
       Path(SubDir, << "a", ".", "p", "d", "f" >>) >>

\* the trees tried: the files under the input directory are a run of the
\* catalogue of at most MaxFiles files
Trees ==
    { SubSeq(Catalogue, w[1], w[2]) :
        w \in { v \in (1..Len(Catalogue)) \X (0..Len(Catalogue)) : v[2] - v[1] + 1 <= MaxFiles } }

Range(s) == { s[i] : i \in 1..Len(s) }

Options(g, h, c, t) ==
    [generate_ids |-> g, consolidate_header |-> h, consolidate_citations |-> c, tei_coordinates |-> t]

\* the command lines tried: the service, --output, and the option flags
CommandLines ==
    { [service |-> "processFulltextDocument", output |-> Some(OutDir), options |-> Options(TRUE, FALSE, TRUE, TRUE)],
      [service |-> "processHeaderDocument", output |-> None, options |-> Options(FALSE, TRUE, FALSE, FALSE)] }

\* the paths process() can build
Files == { JoinPath(Catalogue[i].dir, Catalogue[i].name) : i \in 1..Len(Catalogue) }

\* every destination a catalogue file can have
Dests == { Destination(p, o) : p \in Files, o \in { None, Some(OutDir) } }

\* lines 97-101 worked out for every path and every --output
Filenames == [o \in { None, Some(OutDir) } |-> [p \in Files |-> Destination(p, o)]]

\* process_pdf, lines 97-101: filename, the destination of the task of p
Filename(p) == Filenames[output_directory][p]

\* the outputs an earlier run over in/a.pdf left
Earlier == { Destination(JoinPath(InDir, << "a", ".", "p", "d", "f" >>), o) : o \in { None, Some(OutDir) } }

NoSrc == << >>
Absent == [kind |-> "absent", src |-> NoSrc]
Old == [kind |-> "old", src |-> NoSrc]
NotStarted == [kind |-> "unset", src |-> NoSrc]
\* a file just created or truncated by open(.., "w")
Empty == [kind |-> "empty", src |-> NoSrc]
\* an incomplete part of the body of p (maybe nothing of it), and nothing else
Partial(p) == [kind |-> "partial", src |-> p]
\* the body the service returns for an input file
Body(p) == [kind |-> "tei", src |-> p]
\* text of p written over the start of longer contents c that stay behind it
Mixed(p, c) == [kind |-> IF c.kind \in { "old", "mixold" } THEN "mixold" ELSE "mixed", src |-> p]

\* os.path.isfile(filename)
IsFile(d, filename) == d[filename].kind # "absent"

\* the directory the operating system looks a file up in (posixpath.dirname)
ParentDir(filename) ==
    LET i == LastPos(filename, { "/" })
        head == SubSeq(filename, 1, i)
        stripped == SubSeq(head, 1, LastPosNot(head, { "/" }))
    IN  IF stripped = << >> THEN head ELSE stripped

ApiBase == << "http://", "localhost", ":", "8070" >>

StatusCodes == { 200, 503, 400 }

\* the destinations whose directory is there: open(.., "w") can create them
Openable == { d \in Dests : ParentDir(d) \in Dirs }

(***************************************************************************)
(* Helpers read off the code.                                              *)
(***************************************************************************)
\* _prepare_post_data, lines 132-143: the form fields of a request
PreparePostData(o, c) ==
    (IF o.generate_ids THEN { << "generate_ids", "1" >> } ELSE {})
    \cup (IF o.consolidate_header THEN { << "consolidate_header", "1" >> } ELSE {})
    \cup (IF o.consolidate_citations THEN { << "consolidate_citations", "1" >> } ELSE {})
    \cup (IF o.tei_coordinates THEN { << "tei_coordinates", c.coordinates >> } ELSE {})

\* process_pdf, line 113: self.api_url = f"{self.api_url}/api/{self.service}"
PostUrl(url, s) == url \o << "/api/", s >>

\* the URL the submission endpoint has: {api_base}/api/{operation}
Endpoint(s) == ApiBase \o << "/api/", s >>

\* a skip test that skips only under --force
SkipsInverted(f, d, filename) == f /\ IsFile(d, filename)

\* process_pdf, line 103: not self.force and os.path.isfile(filename)
Skips(f, d, filename) == ~f /\ IsFile(d, filename)

\* a classification without the retry: a 503 fails like any other status
ClassifyNoRetry(code) == IF code # 200 THEN "failed" ELSE "write"

\* a classification that retries every status but 200
ClassifyRetryAll(code) == IF code # 200 THEN "sleep" ELSE "write"

\* process_pdf, lines 119-124: what a status code leads to
Classify(code) ==
    IF code = 503 THEN "sleep"
    ELSE IF code # 200 THEN "failed"
    ELSE "write"

\* a pool that loses the worker process of every task that failed
PoolSizeLosingWorkers == n - Cardinality({ p \in Files : pc[p] \in { "failed", "raised", "ioerror" } })

\* a pool one process too large
PoolSizeOneMore == n + 1

\* a pool one process too small: none at all when one is asked for
PoolSizeOneLess == n - 1

\* process_batch, line 92: ProcessPoolExecutor(max_workers=n)
PoolSize == n

\* a batch test that is one path late
BatchFullLate(buffer, batch_size_pdf) == Len(buffer) = batch_size_pdf + 1

\* process, line 81: len(pdf_files_paths) == batch_size_pdf
BatchFull(buffer, batch_size_pdf) == Len(buffer) = batch_size_pdf

Terminal == { "skipped", "failed", "written", "ioerror", "raised", "overflow" }
Active == { "check", "post", "wait", "sleep", "write", "opened" }

\* the tasks a worker process is running
Running == { p \in Files : pc[p] \in Active }

RECURSIVE Sum(_, _)
Sum(f, S) == IF S = {} THEN 0 ELSE LET x == CHOOSE y \in S : TRUE IN f[x] + Sum(f, S \ { x })

Total503 == Sum(got503, Files)

\* what the environment made go wrong so far in the run: answers other than
\* 200, errors raised, failed writes (an open in a directory that is not there
\* fails by itself)
Faults ==
    Total503 + Cardinality({ p \in Files :
                    \/ pc[p] \in { "failed", "raised" }
                    \/ pc[p] = "ioerror" /\ Filename(p) \in Openable })

\* the POSTs made for an input file
RequestsOf(p) == { r \in requests : r.src = p }

(***************************************************************************)
(* Initial state: the command line read, the configuration file not yet.   *)
(***************************************************************************)
Setup ==
    /\ config \in { [batch_size |-> b, sleep_time |-> 5, coordinates |-> "persName"] : b \in 1..MaxBatch }
    /\ n \in 1..MaxWorkers
    /\ number_of_processes = n
    /\ force \in BOOLEAN
    /\ args \in CommandLines
    /\ options = args.options
    /\ api_url = ApiBase
    /\ service = "None"
    /\ output_directory = None
    /\ alive = 0
    /\ input_ok \in BOOLEAN
    /\ tree \in IF input_ok THEN Trees ELSE { << >> }
    /\ disk \in { [d \in Dests |-> IF d \in E THEN Old ELSE Absent] : E \in { {}, Earlier } }
    /\ mainpc = "new"
    /\ pos = 0
    /\ pdf_files_paths = << >>
    /\ batches = << >>
    /\ queue = << >>
    /\ pc = [p \in Files |-> "none"]
    /\ task_url = [p \in Files |-> << >>]
    /\ requests = {}
    /\ got503 = [p \in Files |-> 0]
    /\ status = [p \in Files |-> 0]
    /\ started = [p \in Files |-> NotStarted]
    /\ checks = [p \in Files |-> 0]
    /\ writes = [p \in Files |-> << >>]
    /\ printed = {}

Init ==
    /\ Setup
    /\ budget = MaxFaults

cfgvars == << args, config, n, number_of_processes, force, options, budget, input_ok, tree >>
taskvars == << queue, pc, task_url, requests, got503, status, started, checks, writes, printed >>

(***************************************************************************)
(* The main process.                                                       *)
(***************************************************************************)
\* a liveness test that takes every answer of the server for a sign of life
IsAliveAnyAnswer(status_code) == status_code > 0

\* _is_alive, lines 56-67: the server is up when it answers 200
IsAlive(status_code) == ~(status_code # 200)

\* __init__, lines 23-48: ConnectionError unless _is_alive()
Construct ==
    /\ mainpc = "new"
    /\ \E status_code \in StatusCodes :
        /\ alive' = status_code
        /\ mainpc' = IF ~IsAlive(status_code) THEN "aborted" ELSE "ready"
    /\ UNCHANGED << cfgvars, taskvars, api_url, service, output_directory, disk, pos,
                    pdf_files_paths, batches >>

\* process, lines 69-74: the arguments are stored and the walk begins
Process ==
    /\ mainpc = "ready"
    /\ service' = args.service
    /\ output_directory' = args.output
    /\ pdf_files_paths' = << >>
    /\ pos' = 0
    /\ mainpc' = "walk"
    /\ UNCHANGED << cfgvars, taskvars, api_url, alive, disk, batches >>

\* process_batch, lines 88-92: the call of process_batch, the pool is made
ProcessBatch(paths, after) ==
    /\ batches' = Append(batches, paths)
    /\ mainpc' = after

\* process, lines 76-83: one file name of the walk
Visit ==
    /\ mainpc = "walk"
    /\ pos < Len(tree)
    /\ pos' = pos + 1
    /\ LET entry == tree[pos + 1] IN
        IF IsPdfName(entry.name)
        THEN /\ pdf_files_paths' = Append(pdf_files_paths, JoinPath(entry.dir, entry.name))
             /\ IF BatchFull(pdf_files_paths', config.batch_size)
                THEN ProcessBatch(pdf_files_paths', "batch")
                ELSE UNCHANGED << batches, mainpc >>
        ELSE UNCHANGED << pdf_files_paths, batches, mainpc >>
    /\ UNCHANGED << cfgvars, taskvars, api_url, alive, service, output_directory, disk >>

\* process, lines 85-86: the walk is over
WalkEnd ==
    /\ mainpc = "walk"
    /\ pos = Len(tree)
    /\ IF Len(pdf_files_paths) > 0
       THEN ProcessBatch(pdf_files_paths, "final")
       ELSE mainpc' = "done" /\ UNCHANGED batches
    /\ UNCHANGED << cfgvars, taskvars, api_url, alive, service, output_directory, disk, pos,
                    pdf_files_paths >>

\* the positions of the batch whose path is not yet submitted
Unsubmitted == { i \in 1..Len(pdf_files_paths) : pc[pdf_files_paths[i]] = "none" }

\* process_batch, lines 93-94: executor.submit for the next path of the batch;
\* the work item carries a copy of the client
Submit ==
    /\ mainpc \in { "batch", "final" }
    /\ Unsubmitted # {}
    /\ LET i == CHOOSE k \in Unsubmitted : \A j \in Unsubmitted : k <= j
           pdf_files_path == pdf_files_paths[i]
       IN
        /\ queue' = Append(queue, pdf_files_path)
        /\ pc' = [pc EXCEPT ![pdf_files_path] = "queued"]
        /\ task_url' = [task_url EXCEPT ![pdf_files_path] = api_url]
    /\ UNCHANGED << cfgvars, api_url, alive, service, output_directory, disk, mainpc, pos,
                    pdf_files_paths, batches, requests, got503, status, started, checks,
                    writes, printed >>

\* a pool exit that does not wait for the workers sleeping on a 503
DrainedButSleepers == queue = << >> /\ \A p \in Running : pc[p] = "sleep"

\* the end of the with-block of process_batch: every future of the pool is over
Drained == queue = << >> /\ Running = {}

\* process_batch returns; process, line 83, or the end of process
BatchDone ==
    /\ mainpc \in { "batch", "final" }
    /\ Unsubmitted = {}
    /\ Drained
    /\ IF mainpc = "batch"
       THEN mainpc' = "walk" /\ pdf_files_paths' = << >>
       ELSE mainpc' = "done" /\ UNCHANGED pdf_files_paths
    /\ UNCHANGED << cfgvars, taskvars, api_url, alive, service, output_directory, disk, pos, batches >>

(***************************************************************************)
(* The worker processes of the pool: one process_pdf task per file.        *)
(***************************************************************************)
mainvars == << api_url, alive, service, output_directory, mainpc, pos, pdf_files_paths, batches >>

\* a free worker process takes the oldest pending work item
Dequeue ==
    /\ queue # << >>
    /\ Cardinality(Running) < PoolSize
    /\ pc' = [pc EXCEPT ![Head(queue)] = "check"]
    /\ queue' = Tail(queue)
    /\ UNCHANGED << cfgvars, mainvars, disk, task_url, requests, got503, status, started, checks,
                    writes, printed >>

\* process_pdf, lines 97-107: the destination is named and the skip test made
Check(p) ==
    /\ pc[p] = "check"
    /\ LET filename == Filename(p) IN
        /\ pc' = [pc EXCEPT ![p] = IF Skips(force, disk, filename) THEN "skipped" ELSE "post"]
        /\ started' = [started EXCEPT ![p] = IF @ = NotStarted THEN disk[filename] ELSE @]
        /\ checks' = [checks EXCEPT ![p] = @ + 1]
    /\ UNCHANGED << cfgvars, mainvars, disk, queue, task_url, requests, got503, status, writes, printed >>

\* process_pdf, lines 109-117: the input file is opened (open may raise), the
\* URL and the form fields are made and the request is sent
Post(p) ==
    /\ pc[p] = "post"
    /\ \/ /\ Faults < budget
          /\ pc' = [pc EXCEPT ![p] = "raised"]
          /\ UNCHANGED << task_url, requests >>
       \/ LET url == PostUrl(task_url[p], service)
              data == PreparePostData(options, config)
          IN
            /\ task_url' = [task_url EXCEPT ![p] = url]
            /\ requests' = requests \cup
                    { [src |-> p, attempt |-> Cardinality(RequestsOf(p)) + 1, url |-> url, data |-> data] }
            /\ pc' = [pc EXCEPT ![p] = "wait"]
    /\ UNCHANGED << cfgvars, mainvars, disk, queue, got503, status, started, checks, writes, printed >>

\* process_pdf, lines 116-123: self.post returns the answer of the server, or raises
Answer(p) ==
    /\ pc[p] = "wait"
    /\ \/ /\ Faults < budget
          /\ pc' = [pc EXCEPT ![p] = "raised"]
          /\ UNCHANGED << got503, status, printed >>
       \/ \E status_code \in StatusCodes :
            /\ status_code # 200 => Faults < budget
            /\ status' = [status EXCEPT ![p] = status_code]
            /\ pc' = [pc EXCEPT ![p] = Classify(status_code)]
            /\ got503' = [got503 EXCEPT ![p] = IF status_code = 503 THEN @ + 1 ELSE @]
            /\ printed' = IF Classify(status_code) = "failed"
                          THEN printed \cup { [src |-> p, message |-> "status"] }
                          ELSE printed
    /\ UNCHANGED << cfgvars, mainvars, disk, queue, task_url, requests, started, checks, writes >>

\* the frames of process_pdf on the stack of the task of p: one per 503 so far
Depth(p) == got503[p]

\* a retry that goes on from where the first call was: the skip test is not made again
RetryPastCheck(p) ==
    /\ pc[p] = "sleep"
    /\ pc' = [pc EXCEPT ![p] = "post"]
    /\ UNCHANGED << cfgvars, mainvars, disk, queue, task_url, requests, got503, status,
                    started, checks, writes, printed >>

\* process_pdf, lines 120-121: the sleep is over, process_pdf calls itself;
\* the interpreter raises RecursionError when the stack is full
Retry(p) ==
    /\ pc[p] = "sleep"
    /\ pc' = [pc EXCEPT ![p] = IF Depth(p) >= RecursionLimit THEN "overflow" ELSE "check"]
    /\ UNCHANGED << cfgvars, mainvars, disk, queue, task_url, requests, got503, status,
                    started, checks, writes, printed >>

\* an open that leaves the contents of the file as they are (mode "r+")
OpenKeeping(d, filename, outcome) == d

\* io.open(filename, "w"), line 127: the file is created or cut to nothing,
\* unless open fails
OpenTruncate(d, filename, outcome) ==
    IF outcome = "ok" THEN [d EXCEPT ![filename] = Empty] ELSE d

\* process_pdf, lines 126-127, 129-130: the destination is opened
Open(p) ==
    /\ pc[p] = "write"
    /\ LET filename == Filename(p) IN
       \E outcome \in { "ok", "open fails" } :
        /\ filename \notin Openable => outcome = "open fails"
        /\ (outcome # "ok" /\ filename \in Openable) => Faults < budget
        /\ disk' = OpenTruncate(disk, filename, outcome)
        /\ pc' = [pc EXCEPT ![p] = IF outcome = "ok" THEN "opened" ELSE "ioerror"]
        /\ writes' = [writes EXCEPT ![p] = IF outcome = "ok" THEN @ ELSE Append(@, outcome)]
        /\ printed' = IF outcome = "ok" THEN printed
                      ELSE printed \cup { [src |-> p, message |-> "oserror"] }
    /\ UNCHANGED << cfgvars, mainvars, queue, task_url, requests, got503, status, started, checks >>

\* tei_file.write(response.text) and the close, line 128: the text goes to the
\* start of the file, over what another writer of the same file put there
\* since the open: all of it, part of it, or (a write that fails) none
WriteText(d, filename, text, outcome, over) ==
    LET c == d[filename]
        bare == c.kind \in { "absent", "empty" }
    IN  IF outcome = "ok"
        THEN [d EXCEPT ![filename] = IF bare \/ over = "all" THEN text ELSE Mixed(text.src, c)]
        ELSE [d EXCEPT ![filename] = IF bare \/ over = "all" THEN Partial(text.src)
                                     ELSE IF over = "part" THEN Mixed(text.src, c)
                                     ELSE c]

\* process_pdf, lines 127-130: the answer is written and the file closed
Write(p) ==
    /\ pc[p] = "opened"
    /\ LET filename == Filename(p) IN
       \E outcome \in { "ok", "write fails" }, over \in { "all", "part", "none" } :
        /\ disk[filename].kind \in { "absent", "empty" } => over = "all"
        /\ outcome = "ok" => over # "none"
        /\ outcome # "ok" => Faults < budget
        /\ disk' = WriteText(disk, filename, Body(p), outcome, over)
        /\ pc' = [pc EXCEPT ![p] = IF outcome = "ok" THEN "written" ELSE "ioerror"]
        /\ writes' = [writes EXCEPT ![p] = Append(@, outcome)]
        /\ printed' = IF outcome = "ok" THEN printed
                      ELSE printed \cup { [src |-> p, message |-> "oserror"] }
    /\ UNCHANGED << cfgvars, mainvars, queue, task_url, requests, got503, status, started, checks >>

Next ==
    \/ Construct
    \/ Process
    \/ Visit
    \/ WalkEnd
    \/ Submit
    \/ BatchDone
    \/ Dequeue
    \/ \E p \in Files : Check(p)
    \/ \E p \in Files : Post(p)
    \/ \E p \in Files : Answer(p)
    \/ \E p \in Files : Retry(p)
    \/ \E p \in Files : Open(p)
    \/ \E p \in Files : Write(p)

Spec == Init /\ [][Next]_vars

\* the runs of one command line (a service, --output and its option flags)
\* that begin with no output of an earlier run
FairInit ==
    /\ Init
    /\ args.service = "processFulltextDocument"
    /\ args.output = Some(OutDir)
    /\ \A f \in DOMAIN disk : disk[f] = Absent

\* the main process and the worker processes are scheduled, and every request is answered
FairSpec == FairInit /\ [][Next]_vars /\ WF_vars(Next)

\* runs over one file in which the server may answer 503 until the stack of
\* the retry is full
DeepInit ==
    /\ Setup
    /\ Len(tree) = 1
    /\ budget = RecursionLimit

DeepSpec == DeepInit /\ [][Next]_vars

(***************************************************************************)
(* Properties.                                                             *)
(***************************************************************************)
Min(a, b) == IF a < b THEN a ELSE b
CeilDiv(a, b) == (a + b - 1) \div b

\* the PDF paths of the walk, in discovery order
Discovered ==
    LET found == SelectSeq(tree, LAMBDA e : IsPdfName(e.name))
    IN  [i \in 1..Len(found) |-> JoinPath(found[i].dir, found[i].name)]

\* positions [i*B, min((i+1)*B, M)) of s, counted from 0
Slice(s, i, B) == SubSeq(s, i * B + 1, Min((i + 1) * B, Len(s)))

\* the batches a file is in
BatchesOf(p) == { i \in 1..Len(batches) : p \in Range(batches[i]) }

\* C1: process() calls process_batch ceil(M/B) times, call i gets the
\* discovered paths [i*B, min((i+1)*B, M)) in discovery order; every
\* discovered path is in exactly one batch and no batch is empty.
C1_BatchPartition ==
    LET B == config.batch_size
        M == Len(Discovered)
    IN  /\ Len(batches) <= CeilDiv(M, B)
        /\ \A i \in 0..(Len(batches) - 1) :
            batches[i + 1] = Slice(Discovered, i, B) /\ batches[i + 1] # << >>
        /\ mainpc = "done" =>
            /\ Len(batches) = CeilDiv(M, B)
            /\ \A p \in Range(Discovered) : Cardinality(BatchesOf(p)) = 1

C1_Witness ==
    /\ mainpc = "done"
    /\ Len(batches) = 2
    /\ Len(batches[1]) = 2
    /\ Len(batches[2]) = 1

\* C2: no file of a later batch is handed to the pool, and no request is sent
\* for it, before every file of each earlier batch is in a terminal state,
\* also while a file of the earlier batch sleeps on a 503.
C2_BatchOrder ==
    \A j \in 1..Len(batches) : \A i \in 1..(j - 1) :
        \A q \in Range(batches[i]) : \A p \in Range(batches[j]) :
            /\ pc[p] # "none" => pc[q] \in Terminal
            /\ RequestsOf(p) # {} => pc[q] \in Terminal

C2_Witness ==
    /\ Len(batches) = 2
    /\ \E q \in Range(batches[1]) : got503[q] > 0 /\ pc[q] \in Terminal
    /\ \E p \in Range(batches[2]) : RequestsOf(p) # {}

\* C3: a file answered 503 k times and then another status was submitted
\* k+1 times, every time with the same file and the same form fields; a 503
\* never ends a file; a final 200 gives one write, and it is the only one.
C3_RetryUntilAnswer ==
    \A p \in Files :
        /\ status[p] \notin { 0, 503 } =>
            /\ Cardinality(RequestsOf(p)) = got503[p] + 1
            /\ { r.attempt : r \in RequestsOf(p) } = 1..(got503[p] + 1)
            /\ \A r1, r2 \in RequestsOf(p) : r1.data = r2.data
        /\ pc[p] \in { "failed", "write", "opened", "written", "ioerror" } => status[p] # 503
        /\ Len(writes[p]) <= 1
        /\ pc[p] = "written" <=> writes[p] = << "ok" >>
        /\ status[p] = 200 => pc[p] \in { "write", "opened", "written", "ioerror" }
        /\ pc[p] \in { "write", "opened", "written", "ioerror" } => status[p] = 200

C3_Witness ==
    \E p \in Files :
        /\ got503[p] = 2
        /\ status[p] = 200
        /\ pc[p] = "written"
        /\ Cardinality(RequestsOf(p)) = 3

Failure == { "failed", "raised", "ioerror" }

\* the files with the same destination as p
Colliding(p) ==
    { q \in Files \ { p } : Filename(q) = Filename(p) }

\* C4: a file that failed (status other than 200 and 503, error raised in the
\* worker, write error) blocks nothing: every other task of the pool can still
\* take its next step, the pool exit is not held up, and when the run is over
\* every discovered file is in a terminal state of its own (a 200 was written
\* or met a write error of its own) and every batch was scheduled.
C4_FailureIsolation ==
    (\E p \in Files : pc[p] \in Failure) =>
        /\ \A q \in Files :
            /\ pc[q] \in Active =>
                ENABLED (Check(q) \/ Post(q) \/ Answer(q) \/ Retry(q) \/ Open(q) \/ Write(q))
            /\ pc[q] = "queued" => Running # {} \/ ENABLED Dequeue
        /\ mainpc \in { "batch", "final" } /\ queue = << >> /\ Running = {} =>
                ENABLED (Submit \/ BatchDone)
        /\ mainpc = "walk" => ENABLED (Visit \/ WalkEnd)
        /\ mainpc = "done" =>
            /\ \A q \in Range(Discovered) :
                /\ pc[q] \in Terminal
                /\ status[q] = 200 => pc[q] \in { "written", "ioerror" }
                /\ pc[q] = "ioerror" => writes[q] # << "ok" >>
            /\ Len(batches) = CeilDiv(Len(Discovered), config.batch_size)

C4_Witness ==
    /\ mainpc = "done"
    /\ Len(batches) = 2
    /\ \E p, q \in Range(batches[1]) : pc[p] = "raised" /\ pc[q] = "written"
    /\ \E r \in Range(batches[2]) : pc[r] = "written"

\* the files with the same destination as p that have opened it
Openers(p) == { q \in Colliding(p) : pc[q] \in { "opened", "written" } \/ writes[q] = << "write fails" >> }

\* C5: without --force, a file whose destination existed when its task began
\* is skipped: no request is ever sent for it, it writes nothing, and the
\* destination keeps its contents (unless a file with the same destination
\* opens it).
C5_SkipExisting ==
    \A p \in Files :
        ~force /\ started[p].kind \notin { "unset", "absent" } =>
            /\ pc[p] = "skipped"
            /\ RequestsOf(p) = {}
            /\ writes[p] = << >>
            /\ Openers(p) = {} => disk[Filename(p)] = started[p]

C5_Witness ==
    \E p \in Files :
        /\ ~force
        /\ started[p] = Old
        /\ pc[p] = "skipped"
        /\ disk[Filename(p)] = Old

\* C6 (as claimed): any two distinct discovered inputs have different
\* destinations.
C6_UniqueDestinations ==
    \A p, q \in Files :
        p # q /\ pc[p] # "none" /\ pc[q] # "none" =>
            Filename(p) # Filename(q)

\* C7 (as claimed): every POST, the first and every one after a 503, goes to
\* {api_base}/api/{service}.
C7_PostUrl == \A r \in requests : r.url = Endpoint(service)

\* C8: a status other than 200 and 503 ends the file as failed after that
\* one answer: it is not submitted again and it writes nothing.
C8_PermanentFailure ==
    \A p \in Files :
        status[p] \notin { 0, 200, 503 } =>
            /\ pc[p] = "failed"
            /\ Cardinality(RequestsOf(p)) = got503[p] + 1
            /\ writes[p] = << >>
            /\ [src |-> p, message |-> "status"] \in printed

C8_Witness ==
    \E p \in Files :
        /\ status[p] = 400
        /\ pc[p] = "failed"
        /\ mainpc = "done"
        /\ \E q \in Files : pc[q] = "written" /\ BatchesOf(q) # BatchesOf(p)

\* C9: the buffer of process() never holds more than batch_size paths, and
\* never more than number_of_processes files are being processed at a time.
C9_Bounded ==
    /\ Len(pdf_files_paths) <= config.batch_size
    /\ Cardinality(Running) <= number_of_processes

C9_Witness ==
    /\ Len(pdf_files_paths) = config.batch_size
    /\ Cardinality(Running) = number_of_processes
    /\ queue # << >>

\* C10: under --force a file whose destination existed when its task began is
\* not skipped: unless its input cannot be opened a request is sent for it,
\* and once its 200 is written nothing of the old contents is left: the
\* destination holds the new body (if no file with the same destination
\* opened it too).
C10_ForceOverwrites ==
    \A p \in Files :
        force /\ started[p].kind \notin { "unset", "absent" } =>
            /\ pc[p] # "skipped"
            /\ pc[p] \notin { "post", "raised" } => RequestsOf(p) # {}
            /\ pc[p] = "written" =>
                /\ disk[Filename(p)].kind \notin { "absent", "old", "mixold" }
                /\ Openers(p) = {} => disk[Filename(p)] = Body(p)

C10_Witness ==
    \E p \in Files :
        /\ force
        /\ started[p] = Old
        /\ pc[p] = "written"
        /\ disk[Filename(p)] = Body(p)

\* C11 (as claimed): when the run is over, the destination of every file
\* whose last answer was 200, and whose write went through, holds the body of
\* that answer.
C11_RoundTrip ==
    mainpc = "done" =>
        \A p \in Files :
            status[p] = 200 /\ pc[p] = "written" =>
                disk[Filename(p)] = Body(p)

\* C12: when the liveness test gets a status other than 200 the client is not
\* built (ConnectionError): no batch is scheduled and no file is submitted;
\* whatever process() does, it does after a liveness test answered with 200.
C12_LivenessAbort ==
    /\ alive \notin { 0, 200 } =>
        /\ mainpc = "aborted"
        /\ batches = << >>
        /\ requests = {}
        /\ \A p \in Files : pc[p] = "none"
    /\ mainpc \notin { "new", "aborted" } => alive = 200
    /\ (batches # << >> \/ requests # {} \/ \E p \in Files : pc[p] # "none") => alive = 200

C12_Witness ==
    /\ alive = 503
    /\ mainpc = "aborted"
    /\ input_ok
    /\ Len(Discovered) > 1

\* the lower-case form of a character of a file name
LowerChar(c) ==
    CASE c = "P" -> "p"
      [] c = "D" -> "d"
      [] c = "F" -> "f"
      [] OTHER -> c

LowerName(name) == [i \in 1..Len(name) |-> LowerChar(name[i])]

\* the file name ends in .pdf, in whatever case its letters are
IsPdfAnyCase(filename) == EndsWith(LowerName(filename), ExtLower)

\* C13 (as claimed): when the walk is over, a file under the input directory
\* is in some batch exactly when its name ends in .pdf, upper and lower case
\* taken as equal.
C13_DiscoverAnyCase ==
    mainpc = "done" =>
        \A i \in 1..Len(tree) :
            BatchesOf(JoinPath(tree[i].dir, tree[i].name)) # {} <=> IsPdfAnyCase(tree[i].name)

\* C14 (as claimed): with an input directory that does not exist or is not a
\* directory, process() ends with an error: it does not run to its end with
\* zero batches.
C14_InvalidRoot == ~input_ok => mainpc # "done"

\* the run is over: process() returned, or no client was built
Done == mainpc \in { "done", "aborted" }

\* C15: with the processes scheduled and every request answered, 503 only a
\* bounded number of times, the run comes to its end; and at the end of
\* process() every discovered file is in exactly one terminal state, the
\* others were never touched, and no task is queued or running in a pool.
C15_Termination ==
    /\ <>Done
    /\ [](mainpc = "done" =>
            /\ \A p \in Files :
                   IF p \in Range(Discovered) THEN pc[p] \in Terminal ELSE pc[p] = "none"
            /\ queue = << >>
            /\ Running = {})

C15_Witness ==
    /\ mainpc = "done"
    /\ Len(batches) > 1
    /\ Total503 = MaxFaults
    /\ \A p \in Range(Discovered) : pc[p] \in Terminal
    /\ \E p, q \in Range(Discovered) : pc[p] = "written" /\ pc[q] = "skipped"

\* C16 (as claimed): a 503 never ends a file. A file whose last answer was 503
\* is sleeping or on its way to the next submission, however many 503 it got;
\* it is over only for a reason of its own (its destination appeared, or the
\* transport of the next submission raised).
C16_RetryWithoutCap ==
    \A p \in Files :
        status[p] = 503 => pc[p] \in { "sleep", "check", "post", "wait", "skipped", "raised" }

\* C17 (as claimed): the attempts of process_pdf leave the configuration of the
\* client as process() set it: the option flags, the service, the output
\* directory, and the base URL, in the client of the main process and in the
\* client every task works on.
C17_ConfigUnchanged ==
    mainpc \notin { "new", "ready", "aborted" } =>
        /\ options = args.options
        /\ service = args.service
        /\ output_directory = args.output
        /\ api_url = ApiBase
        /\ \A p \in Files : pc[p] \notin { "none", "queued" } => task_url[p] = ApiBase

\* C18 (as claimed): a write that fails leaves nothing the skip test takes for
\* an output: where the destination did not exist before and no other file
\* has the same destination, a later attempt without --force does not skip.
C18_NoPartialOutput ==
    \A p \in Files :
        (/\ pc[p] = "ioerror"
         /\ started[p] = Absent
         /\ Colliding(p) \cap Range(Discovered) = {})
            => ~Skips(FALSE, disk, Filename(p))

\* C19 (as claimed): when the run is over, a message naming the file was
\* printed for every file that failed: by its status, by a write error, or by
\* an error raised in its worker.
C19_FailuresReported ==
    mainpc = "done" =>
        \A p \in Files :
            pc[p] \in { "failed", "ioerror", "raised", "overflow" } =>
                \E m \in printed : m.src = p

\* C20: the skip test is made again on every retry. Each submission of a file
\* follows a skip test of its own; without --force a retry that finds the
\* destination there ends the file as skipped, and a file that was skipped
\* after a 503 was not submitted again and wrote nothing.
C20_SkipTestOnRetry ==
    /\ [](\A p \in Files :
            /\ Cardinality(RequestsOf(p)) <= checks[p]
            /\ pc[p] \in { "post", "wait" } => checks[p] = got503[p] + 1
            /\ pc[p] = "sleep" => checks[p] = got503[p]
            /\ pc[p] = "skipped" =>
                /\ ~force
                /\ checks[p] = got503[p] + 1
                /\ Cardinality(RequestsOf(p)) = got503[p]
                /\ writes[p] = << >>)
    /\ [][\A p \in Files :
            (/\ pc[p] = "check"
             /\ pc'[p] # "check"
             /\ ~force
             /\ IsFile(disk, Filename(p)))
                => /\ pc'[p] = "skipped"
                   /\ requests' = requests
                   /\ disk' = disk]_vars

C20_Witness ==
    \E p \in Files :
        /\ ~force
        /\ started[p] = Absent
        /\ got503[p] > 0
        /\ checks[p] = got503[p] + 1
        /\ pc[p] = "skipped"
        /\ writes[p] = << >>
        /\ \E q \in Colliding(p) : disk[Filename(p)] = Body(q)

====
